---- MODULE Spec2Model ----
(***************************************************************************)
(* Model of the sports-odds proxy: the REST cache layer, the per-socket    *)
(* subscription engine (server.js, here src/unnamed/part_000) and the      *)
(* data transformer (src/utils/dataTransformer.js).                        *)
(*                                                                         *)
(* Node runs every handler on one event loop: a handler runs without       *)
(* interruption up to its next `await` on the network, and a chain of      *)
(* promise continuations runs to its end before the next message, timer or *)
(* response is handled.  Each action below is one such uninterrupted run.  *)
(***************************************************************************)
EXTENDS Integers, Sequences, FiniteSets, Bags, TLC

(***************************************************************************)
(* Bounds of the model.                                                    *)
(***************************************************************************)
NumConns == 2        \* sockets
MaxSubscribes == 2   \* subscribe_* messages received, all sockets together
MaxCycles == 1       \* timer-driven cycles awaiting their fetch at once
MaxReq == 2          \* REST requests
MaxTicks == 2        \* advances of the clock
MaxMarkets == 3      \* market records in a raw payload handed to the transformer
GeneratedUsers == 1  \* users created at first start besides the admin (10 in the code)
MaxLogins == 3       \* POST /api/auth/login requests
MaxAdds == 2         \* POST /api/admin/users requests

(***************************************************************************)
(* JavaScript values.                                                      *)
(***************************************************************************)
Absent == "undefined"          \* a missing field
NoSub == <<>>                  \* subscriptions.sport / .event = null
NoTimer == 0                   \* an interval variable holding null
JsNull == [isNull |-> TRUE]    \* null, where an object is expected

Lanes == {"sport", "event"}
Conns == 1..NumConns

\* String.prototype.toLowerCase, on the names the model uses.
toLowerCase(s) ==
  CASE s = "Cricket" -> "cricket"
    [] s = "Tennis" -> "tennis"
    [] s = "League" -> "league"
    [] s = "Zeta Cup" -> "zeta cup"
    [] s = "alpha Cup" -> "alpha cup"
    [] s = "\\u00C9ire Cup" -> "\\u00E9ire cup"
    [] OTHER -> s

\* The sport names sockets subscribe to, and those REST requests name.
SubscribedNames == {"cricket", "tennis"}
RequestedNames == {"cricket", "Cricket"}
EventIds == {"E1"}

\* SPORT_TYPE_IDS
SPORT_TYPE_IDS == [cricket |-> "4", football |-> "1", tennis |-> "2"]

\* getSportTypeId: the table's entry for the lower-cased name, else '4'.
getSportTypeId(sportName) ==
  LET normalizedName == toLowerCase(sportName)
  IN  IF normalizedName \in DOMAIN SPORT_TYPE_IDS
        THEN SPORT_TYPE_IDS[normalizedName]
        ELSE "4"

(***************************************************************************)
(* Upstream payloads.  A market record of the provider carries an event    *)
(* block, a competition block and a runners list, each of which may be     *)
(* missing.                                                                *)
(***************************************************************************)
NoBlock == [present |-> FALSE, id |-> Absent, name |-> Absent]
Block(id, name) == [present |-> TRUE, id |-> id, name |-> name]
NoRunners == [present |-> FALSE, list |-> <<>>]
Runners(l) == [present |-> TRUE, list |-> l]

RawMarket(id, name, typeId, event, competition, runners) ==
  [isNull |-> FALSE, id |-> id, name |-> name, eventTypeId |-> typeId, event |-> event,
   competition |-> competition, runners |-> runners]

\* A null where a market record is expected.
NullRecord ==
  [isNull |-> TRUE, id |-> Absent, name |-> Absent, eventTypeId |-> Absent,
   event |-> NoBlock, competition |-> NoBlock, runners |-> NoRunners]

RawRunner(id, name) == [id |-> id, name |-> name]

\* What apiRequest can resolve to: null, a body without `result`, a body
\* with a `result` list, a body whose `result` is not a list (an object).
NoData == [isNull |-> TRUE, hasResult |-> FALSE, isList |-> FALSE, result |-> <<>>]
RawNoResult == [isNull |-> FALSE, hasResult |-> FALSE, isList |-> FALSE, result |-> <<>>]
RawResult(l) == [isNull |-> FALSE, hasResult |-> TRUE, isList |-> TRUE, result |-> l]
RawNotList == [isNull |-> FALSE, hasResult |-> TRUE, isList |-> FALSE, result |-> <<>>]

MarketA(typeId) ==
  RawMarket("m1", "Match Odds", typeId, Block("E1", "A v B"),
            Block("c1", "League"), Runners(<<RawRunner("r1", "A")>>))
MarketB(typeId) ==
  RawMarket("m2", "Tied Match", typeId, Block("E1", "A v B"),
            NoBlock, Runners(<<RawRunner("r2", "B")>>))

\* Market records of every kind the sport transformer tells apart: with and
\* without a competition, an event id, runners; competitions whose names
\* differ in case and accent; a null record.
SportPool ==
  { MarketA("4"),
    MarketB("4"),
    RawMarket("m3", "Match Odds", "4", Block("E2", "C v D"),
              Block("c2", "alpha Cup"), Runners(<<RawRunner("r3", "C")>>)),
    RawMarket("m4", "Over/Under 1.5", "4", Block("E1", "A v B"),
              Block("c3", "Zeta Cup"), NoRunners),
    RawMarket("m5", "Match Odds", "4", Block("E3", "E v F"),
              Block("c4", "\\u00C9ire Cup"), Runners(<<RawRunner("r5", "E")>>)),
    RawMarket("m6", "Match Odds", "4", NoBlock,
              Block("c1", "League"), Runners(<<RawRunner("r6", "G")>>)),
    NullRecord }

\* A market record of event E1 with the given name.
NamedMarket(id, name, runners) ==
  RawMarket(id, name, "4", Block("E1", "A v B"), Block("c1", "League"), runners)

\* Market records of one event whose names fall into every bucket of the
\* event transformer, two of them named 'Match Odds', one without runners.
EventPool ==
  { MarketA("4"),
    MarketB("4"),
    NamedMarket("m7", "Over/Under 1.5", Runners(<<>>)),
    NamedMarket("m8", "Set 1 Over/Under", Runners(<<>>)),
    NamedMarket("m9", "Set 1 Winner", Runners(<<>>)),
    NamedMarket("m10", "Game 1 Winner", Runners(<<>>)),
    NamedMarket("m11", "To Win the Toss", Runners(<<>>)),
    NamedMarket("m12", "Match Odds", Runners(<<>>)),
    NamedMarket("m13", "Set 1 Winner", NoRunners) }

ListsOver(pool) == UNION {[1..n -> pool] : n \in 0..MaxMarkets}

\* The raw payloads handed to the transformer.
RawInputs ==
  {NoData, RawNoResult, RawNotList}
    \cup {RawResult(l) : l \in ListsOver(SportPool) \cup ListsOver(EventPool)}

\* The bodies the provider answers with for one type id: a list of markets,
\* and a body the transformer rejects.
RawBodies(typeId) ==
  { RawResult(<<MarketA(typeId), MarketB(typeId)>>), RawNoResult }

\* apiRequest resolves to response.data, or to null when the request fails.
apiRequest(typeId) == {NoData} \cup RawBodies(typeId)

(***************************************************************************)
(* The data transformer (src/utils/dataTransformer.js).                    *)
(***************************************************************************)
\* Mutant of transformMarket: a record without runners becomes a market
\* without runners.
transformMarketKeepingAll(market) ==
  IF market.isNull
    THEN JsNull
    ELSE [isNull |-> FALSE, id |-> market.id, name |-> market.name,
          sport |-> "cricket", runners |-> <<>>]

\* transformMarket: null for a record without runners, else the normalised
\* market with its runners mapped one to one.
transformMarket(market) ==
  IF market.isNull \/ ~market.runners.present
    THEN JsNull
    ELSE [isNull |-> FALSE,
          id |-> market.id,
          name |-> market.name,
          sport |-> CASE market.eventTypeId = "1" -> "football"
                      [] market.eventTypeId = "2" -> "tennis"
                      [] market.eventTypeId = "4" -> "cricket"
                      [] OTHER -> "unknown",
          runners |-> [i \in 1..Len(market.runners.list) |->
                         [id |-> market.runners.list[i].id,
                          name |-> market.runners.list[i].name,
                          backPrices |-> <<>>,
                          layPrices |-> <<>>]]]

\* The two objects the forEach of transformSportData fills, with the order
\* in which their keys were inserted.
EmptyGroups ==
  [matches |-> <<>>, matchIds |-> <<>>, competitions |-> <<>>, competitionIds |-> <<>>,
   threw |-> FALSE]

\* One iteration of data.result.forEach in transformSportData.
\* Reading market.event of a null record throws, which ends the forEach.
groupMarket(acc, market, sportName) ==
  IF acc.threw THEN acc
  ELSE IF market.isNull THEN [acc EXCEPT !.threw = TRUE]
  ELSE IF ~market.event.present \/ market.event.id = Absent
    THEN acc
    ELSE
      LET eventId == market.event.id
          competitionId == market.competition.id
          competitionName == market.competition.name
          newComp == /\ competitionId # Absent
                     /\ competitionName # Absent
                     /\ competitionId \notin DOMAIN acc.competitions
          comps1 == IF newComp
                      THEN acc.competitions @@
                           (competitionId :> [id |-> competitionId,
                                              name |-> competitionName,
                                              matches |-> <<>>])
                      ELSE acc.competitions
          compIds1 == IF newComp THEN Append(acc.competitionIds, competitionId)
                                 ELSE acc.competitionIds
          newMatch == eventId \notin DOMAIN acc.matches
          matches1 == IF newMatch
                        THEN acc.matches @@
                             (eventId :> [id |-> eventId,
                                          name |-> market.event.name,
                                          sport |-> sportName,
                                          competitionId |-> competitionId,
                                          competition |-> competitionName,
                                          markets |-> <<>>])
                        ELSE acc.matches
          matchIds1 == IF newMatch THEN Append(acc.matchIds, eventId) ELSE acc.matchIds
          comps2 == IF newMatch /\ competitionId # Absent /\ competitionId \in DOMAIN comps1
                      THEN [comps1 EXCEPT ![competitionId].matches = Append(@, eventId)]
                      ELSE comps1
          transformedMarket == transformMarket(market)
          matches2 == IF ~transformedMarket.isNull
                        THEN [matches1 EXCEPT ![eventId].markets = Append(@, transformedMarket)]
                        ELSE matches1
      IN  [matches |-> matches2, matchIds |-> matchIds1,
           competitions |-> comps2, competitionIds |-> compIds1, threw |-> FALSE]

RECURSIVE groupMarkets(_, _, _)
groupMarkets(list, n, sportName) ==
  IF n = 0 THEN EmptyGroups
           ELSE groupMarket(groupMarkets(list, n - 1, sportName), list[n], sportName)

\* The collation rank String.prototype.localeCompare orders the model's
\* competition names by: letters are ordered without regard to case, and an
\* accented letter next to its base letter.
collationRank(name) ==
  CASE name = "alpha Cup" -> 1
    [] name = "\\u00C9ire Cup" -> 2
    [] name = "League" -> 3
    [] name = "Zeta Cup" -> 4
    [] OTHER -> 5

localeCompare(a, b) ==
  IF collationRank(a) < collationRank(b) THEN -1
  ELSE IF collationRank(a) > collationRank(b) THEN 1 ELSE 0

\* Array.prototype.sort with (a, b) => a.name.localeCompare(b.name): a stable
\* sort, here by insertion.
RECURSIVE insertByName(_, _)
insertByName(sorted, comp) ==
  IF sorted = <<>> THEN <<comp>>
  ELSE IF localeCompare(sorted[Len(sorted)].name, comp.name) <= 0
         THEN Append(sorted, comp)
         ELSE Append(insertByName(SubSeq(sorted, 1, Len(sorted) - 1), comp),
                     sorted[Len(sorted)])

\* Mutant of sortByName: the competitions stay in the order of Object.values.
sortByNameSkipped(arr, n) == arr

RECURSIVE sortByName(_, _)
sortByName(arr, n) ==
  IF n = 0 THEN <<>> ELSE insertByName(sortByName(arr, n - 1), arr[n])

\* An exception on its way out of a block.
Thrown(message) == [thrown |-> TRUE, message |-> message]
IsThrown(v) == "thrown" \in DOMAIN v

\* The try block of transformSportData: its value, or the exception it
\* throws.  The keys of `competitions` are not integer-like here, so that
\* Object.values lists them in insertion order.
sportTryBlock(data, sportName, now) ==
  IF ~data.isList
    THEN Thrown("data.result.forEach is not a function")
    ELSE
      LET g == groupMarkets(data.result, Len(data.result), sportName)
          competitionsArray ==
            [i \in 1..Len(g.competitionIds) |->
               LET comp == g.competitions[g.competitionIds[i]]
               IN  [id |-> comp.id, name |-> comp.name,
                    matches |-> [j \in 1..Len(comp.matches) |-> g.matches[comp.matches[j]]]]]
      IN  IF g.threw
            THEN Thrown("Cannot read properties of null (reading 'event')")
            ELSE [success |-> TRUE,
                  sport |-> sportName,
                  competitions |-> sortByName(competitionsArray, Len(competitionsArray)),
                  matchCount |-> Cardinality(DOMAIN g.matches),
                  timestamp |-> now]

\* Mutant of transformSportData: no catch around the try block.
transformSportDataUncaught(data, sportName, now) ==
  IF data.isNull \/ ~data.hasResult
    THEN [success |-> FALSE, message |-> "Invalid data format", sport |-> sportName]
    ELSE sportTryBlock(data, sportName, now)

transformSportData(data, sportName, now) ==
  IF data.isNull \/ ~data.hasResult
    THEN [success |-> FALSE, message |-> "Invalid data format", sport |-> sportName]
    ELSE
      LET r == sportTryBlock(data, sportName, now)
      IN  IF IsThrown(r)
            THEN [success |-> FALSE,
                  message |-> "Error transforming " \o sportName \o " data: " \o r.message,
                  sport |-> sportName]
            ELSE r

\* Array.prototype.filter, keeping the order.
filterSeq(s, Keep(_)) == SelectSeq(s, Keep)

\* Array.prototype.find: the first element satisfying Test, else undefined.
findFirst(s, Test(_)) ==
  LET hits == filterSeq(s, Test)
  IN  IF hits = <<>> THEN JsNull ELSE hits[1]

\* String.prototype.includes on the market names of the model.
includes(name, part) ==
  CASE part = "Over/Under" -> name \in {"Over/Under 1.5", "Set 1 Over/Under"}
    [] part = "Set" -> name \in {"Set 1 Winner", "Set 1 Over/Under"}
    [] part = "Game" -> name \in {"Game 1 Winner"}
    [] OTHER -> FALSE

\* The try block of transformEventData: its value, or the exception it
\* throws.
eventTryBlock(data, sportName, now) ==
  IF ~data.isList
    THEN Thrown("data.result.map is not a function")
    ELSE
      LET firstMarket == IF data.result = <<>> THEN [event |-> NoBlock, competition |-> NoBlock]
                                             ELSE data.result[1]
          event == firstMarket.event
          all == [i \in 1..Len(data.result) |-> transformMarket(data.result[i])]
          Truthy(m) == ~m.isNull
          markets == filterSeq(all, Truthy)
          IsMatchOdds(m) == m.name = "Match Odds"
          IsTied(m) == m.name = "Tied Match"
          IsOverUnder(m) == includes(m.name, "Over/Under")
          IsSet(m) == includes(m.name, "Set")
          IsGame(m) == includes(m.name, "Game")
          IsOther(m) == /\ m.name # "Match Odds"
                        /\ m.name # "Tied Match"
                        /\ ~includes(m.name, "Over/Under")
                        /\ ~includes(m.name, "Set")
                        /\ ~includes(m.name, "Game")
      IN  [success |-> TRUE,
           sport |-> sportName,
           event |-> [id |-> event.id, name |-> event.name,
                      competition |-> firstMarket.competition.name,
                      competitionId |-> firstMarket.competition.id],
           markets |-> markets,
           groupedMarkets |->
             [matchOdds |-> findFirst(markets, IsMatchOdds),
              tiedMatch |-> findFirst(markets, IsTied),
              overUnderMarkets |-> filterSeq(markets, IsOverUnder),
              setMarkets |-> filterSeq(markets, IsSet),
              gameMarkets |-> filterSeq(markets, IsGame),
              otherMarkets |-> filterSeq(markets, IsOther)],
           timestamp |-> now]

transformEventData(data, sportName, now) ==
  IF data.isNull \/ ~data.hasResult
    THEN [success |-> FALSE, message |-> "Invalid event data format", sport |-> sportName]
    ELSE
      LET r == eventTryBlock(data, sportName, now)
      IN  IF IsThrown(r)
            THEN [success |-> FALSE,
                  message |-> "Error transforming event data: " \o r.message,
                  sport |-> sportName]
            ELSE r

\* No call of the transformer yet.
NoCall == [fn |-> "none"]

(***************************************************************************)
(* State.                                                                  *)
(***************************************************************************)
VARIABLES
  socketState,          \* per socket: "new", "connected", "rejected", "disconnected"
  subscriptions,        \* per socket: the `subscriptions` object of its closure
  sportUpdateInterval,  \* per socket: the variable of that name (a timer id, or NoTimer)
  eventUpdateInterval,  \* per socket: the variable of that name
  intervals,            \* the repeating timers Node has armed (setInterval, not cleared)
  nextTimerId,          \* the id the next setInterval returns
  pending,              \* bag of streaming cycles awaiting their upstream response
  emit,                 \* the socket.emit call of the step just taken, if it made one
  subscribesSeen,       \* subscribe_* messages received so far
  sportsDataCache,      \* the object of that name
  eventDataCache,       \* the object of that name
  requests,             \* the REST requests, by arrival
  upstream,             \* the upstream request the step just taken issued, if any
  now,                  \* Date.now()
  ticks,                \* advances of the clock so far
  handled,              \* what the server handled in the step just taken, if it did
  raw,                  \* a raw payload handed to the transformer
  transformed,          \* the transformer call made on it last, with what it returned
  users,                \* the array of that name: the user directory
  detached,             \* user objects spliced out of `users`, which a login may still hold
  logins,               \* login handlers awaiting bcrypt.compare
  adds,                 \* add-user handlers awaiting bcrypt.genSalt / bcrypt.hash
  issued,               \* the tokens jwt.sign has made
  loginsSeen,           \* login requests received so far
  addsSeen              \* add-user requests received so far

streamVars == <<socketState, subscriptions, sportUpdateInterval, eventUpdateInterval,
                intervals, nextTimerId, pending, subscribesSeen>>
cacheVars == <<sportsDataCache, eventDataCache>>
restVars == <<requests>>
clockVars == <<now, ticks>>
outVars == <<emit, upstream, handled>>
xformVars == <<raw, transformed>>
dirVars == <<users, detached, logins, adds, issued, loginsSeen, addsSeen>>
vars == <<streamVars, cacheVars, restVars, outVars, clockVars, xformVars, dirVars>>

\* Cache TTL (5 minutes), and the 10 seconds of the event route.
CACHE_TTL == 300000
EVENT_CACHE_TTL == 10000

\* The keys the two caches are read and written under.
SportCacheKey(sportName) == toLowerCase(sportName)
EventCacheKey(sportName, eventId) == sportName \o "_" \o eventId

NoEmission == [event |-> "none"]
NoUpstream == [by |-> "none"]
NoMessage == [op |-> "none"]

\* A step that calls neither socket.emit nor apiRequest.
NoEmit == emit' = NoEmission
NoRequest == upstream' = NoUpstream

\* A step in which the socket side handles no handshake, no unsubscribe and
\* no upstream response.
NoHandled == handled' = NoMessage

EmptyEntry == [data |-> JsNull, timestamp |-> 0]

\* Mutant of CacheHit: an entry exactly as old as the window still counts
\* as fresh.
CacheHitInclusive(cache, cacheKey, ttl, at) ==
  /\ cacheKey \in DOMAIN cache
  /\ cache[cacheKey].data # JsNull
  /\ at - cache[cacheKey].timestamp <= ttl

\* The condition of the `if` that guards both caches:
\* cache[key] && cache[key].data && now - cache[key].timestamp < ttl.
CacheHit(cache, cacheKey, ttl, at) ==
  /\ cacheKey \in DOMAIN cache
  /\ cache[cacheKey].data # JsNull
  /\ at - cache[cacheKey].timestamp < ttl

\* The cache key and freshness an upstream URL corresponds to, for the log.
LaneCacheKey(lane, key) ==
  IF lane = "sport" THEN SportCacheKey(key[1]) ELSE EventCacheKey(key[1], key[2])
LaneFresh(lane, key) ==
  IF lane = "sport"
    THEN CacheHit(sportsDataCache, SportCacheKey(key[1]), CACHE_TTL, now)
    ELSE CacheHit(eventDataCache, EventCacheKey(key[1], key[2]), EVENT_CACHE_TTL, now)

(***************************************************************************)
(* The subscription engine: io.use and io.on('connection').                *)
(***************************************************************************)
Tokens == {"none", "bad", "good"}

\* jwt.verify calls back without error for a token signed with JWT_SECRET
\* that has not expired.
jwtVerifies(token) == token = "good"

\* io.use: the handshake middleware; on next() without error the connection
\* handler runs and creates the socket's closure (already in its initial
\* state: no subscription, both interval variables null).
Handshake(c, token) ==
  /\ socketState[c] = "new"
  /\ \A b \in Conns : b < c => socketState[b] # "new"   \* sockets are numbered by arrival
  /\ socketState' = [socketState EXCEPT ![c] =
        IF token = "none" THEN "rejected"
        ELSE IF ~jwtVerifies(token) THEN "rejected"
        ELSE "connected"]
  /\ NoEmit /\ NoRequest
  /\ UNCHANGED <<subscriptions, sportUpdateInterval, eventUpdateInterval, intervals,
                 nextTimerId, pending, subscribesSeen>>
  /\ UNCHANGED <<cacheVars, restVars, clockVars, xformVars, dirVars>>
  /\ handled' = [op |-> "handshake", conn |-> c, token |-> token]

IntervalOf(c, lane) ==
  IF lane = "sport" THEN sportUpdateInterval[c] ELSE eventUpdateInterval[c]

\* clearInterval(handle): the timer with that id is no longer armed.
clearInterval(handle) == {t \in intervals : t.id # handle}

Task(kind, c, lane, key) == [kind |-> kind, conn |-> c, lane |-> lane, key |-> key]

InFlight(kind) ==
  LET S == {t \in BagToSet(pending) : t.kind = kind}
  IN  BagCardinality([t \in S |-> pending[t]])

\* Mutant of StartCycle: the cycle looks in the cache first and goes upstream
\* only on a miss.
StartCycleCacheFirst(kind, c, lane, key) ==
  /\ pending' = pending (+) SetToBag({Task(kind, c, lane, key)})
  /\ upstream' = IF LaneFresh(lane, key)
                   THEN NoUpstream
                   ELSE [by |-> "socket", cacheKey |-> LaneCacheKey(lane, key), fresh |-> FALSE]

\* The call of apiRequest that starts a streaming cycle: the cycle never
\* looks at the caches.
StartCycle(kind, c, lane, key) ==
  /\ pending' = pending (+) SetToBag({Task(kind, c, lane, key)})
  /\ upstream' = [by |-> "socket", cacheKey |-> LaneCacheKey(lane, key),
                       fresh |-> LaneFresh(lane, key)]

\* socket.on('subscribe_sport') / socket.on('subscribe_event') up to the
\* await inside the first fetchAndEmit...Data(): clear the interval the
\* variable holds (the variable keeps the stale handle), record the
\* subscription, issue the upstream request.
Subscribe(c, lane, key) ==
  /\ socketState[c] = "connected"
  /\ subscribesSeen < MaxSubscribes
  /\ subscribesSeen' = subscribesSeen + 1
  /\ intervals' = IF IntervalOf(c, lane) # NoTimer
                    THEN clearInterval(IntervalOf(c, lane))
                    ELSE intervals
  /\ subscriptions' = [subscriptions EXCEPT ![c][lane] = key]
  /\ StartCycle("subscribe", c, lane, key)
  /\ NoEmit
  /\ UNCHANGED <<socketState, sportUpdateInterval, eventUpdateInterval, nextTimerId>>
  /\ UNCHANGED <<cacheVars, restVars, clockVars, xformVars, dirVars>>
  /\ NoHandled

SubscribeSport(c, sportName) == Subscribe(c, "sport", <<sportName>>)
SubscribeEvent(c, sportName, eventId) == Subscribe(c, "event", <<sportName, eventId>>)

\* The body of fetchAndEmitSportData / fetchAndEmitEventData after its await:
\* transform and socket.emit when the response is not null.
Emission(task, response) ==
  LET payload == IF task.lane = "sport"
                   THEN transformSportData(response, task.key[1], now)
                   ELSE transformEventData(response, task.key[1], now)
  IN  [event |-> IF task.lane = "sport" THEN "sport_update" ELSE "event_update",
       conn |-> task.conn,
       key |-> task.key,
       success |-> payload.success,
       connected |-> socketState[task.conn] = "connected",
       current |-> subscriptions[task.conn][task.lane]]

\* Mutant of EmitIfData: a failed fetch is pushed to the client as well.
EmitAlways(task, response) ==
  emit' = Emission(task, response)

EmitIfData(task, response) ==
  emit' = IF response.isNull THEN NoEmission ELSE Emission(task, response)

\* The cycle whose upstream response the step handles, and whether the fetch
\* failed (apiRequest resolved to null).
Completion(task, response) ==
  [op |-> "cycle", kind |-> task.kind, conn |-> task.conn, lane |-> task.lane,
   key |-> task.key, failed |-> response.isNull]

\* Mutant of ArmInterval: the handle is assigned to both interval variables
\* of the socket.
ArmIntervalInBothVariables(task) ==
  /\ intervals' = intervals \cup
        {[id |-> nextTimerId, conn |-> task.conn, lane |-> task.lane, key |-> task.key]}
  /\ nextTimerId' = nextTimerId + 1
  /\ sportUpdateInterval' = [sportUpdateInterval EXCEPT ![task.conn] = nextTimerId]
  /\ eventUpdateInterval' = [eventUpdateInterval EXCEPT ![task.conn] = nextTimerId]

\* setInterval(fetchAndEmit...Data, period), assigned to the lane's variable.
ArmInterval(task) ==
  /\ intervals' = intervals \cup
        {[id |-> nextTimerId, conn |-> task.conn, lane |-> task.lane, key |-> task.key]}
  /\ nextTimerId' = nextTimerId + 1
  /\ IF task.lane = "sport"
       THEN /\ sportUpdateInterval' = [sportUpdateInterval EXCEPT ![task.conn] = nextTimerId]
            /\ UNCHANGED eventUpdateInterval
       ELSE /\ eventUpdateInterval' = [eventUpdateInterval EXCEPT ![task.conn] = nextTimerId]
            /\ UNCHANGED sportUpdateInterval

\* Mutant of SubscribeFetchDone: the handler gives up when its first fetch
\* fails, and arms no interval.
SubscribeFetchDoneArmingOnData(task, response) ==
  /\ BagIn(task, pending)
  /\ task.kind = "subscribe"
  /\ response \in apiRequest(getSportTypeId(task.key[1]))
  /\ pending' = pending (-) SetToBag({task})
  /\ EmitIfData(task, response)
  /\ IF response.isNull
       THEN UNCHANGED <<intervals, nextTimerId, sportUpdateInterval, eventUpdateInterval>>
       ELSE ArmInterval(task)
  /\ UNCHANGED <<socketState, subscriptions, subscribesSeen>>
  /\ NoRequest
  /\ UNCHANGED <<cacheVars, restVars, clockVars, xformVars, dirVars>>
  /\ handled' = Completion(task, response)

\* The upstream response of a subscribe handler's first cycle arrives: the
\* cycle emits, the handler resumes after its await and arms the interval.
SubscribeFetchDone(task, response) ==
  /\ BagIn(task, pending)
  /\ task.kind = "subscribe"
  /\ response \in apiRequest(getSportTypeId(task.key[1]))
  /\ pending' = pending (-) SetToBag({task})
  /\ EmitIfData(task, response)
  /\ ArmInterval(task)
  /\ UNCHANGED <<socketState, subscriptions, subscribesSeen>>
  /\ NoRequest
  /\ UNCHANGED <<cacheVars, restVars, clockVars, xformVars, dirVars>>
  /\ handled' = Completion(task, response)

\* An armed interval fires: fetchAndEmit...Data() runs up to its await.
IntervalFires(t) ==
  /\ t \in intervals
  /\ InFlight("tick") < MaxCycles
  /\ StartCycle("tick", t.conn, t.lane, t.key)
  /\ NoEmit
  /\ UNCHANGED <<socketState, subscriptions, sportUpdateInterval, eventUpdateInterval,
                 intervals, nextTimerId, subscribesSeen>>
  /\ UNCHANGED <<cacheVars, restVars, clockVars, xformVars, dirVars>>
  /\ NoHandled

\* The upstream response of a timer-driven cycle arrives.
CycleFetchDone(task, response) ==
  /\ BagIn(task, pending)
  /\ task.kind = "tick"
  /\ response \in apiRequest(getSportTypeId(task.key[1]))
  /\ pending' = pending (-) SetToBag({task})
  /\ EmitIfData(task, response)
  /\ UNCHANGED <<socketState, subscriptions, sportUpdateInterval, eventUpdateInterval,
                 intervals, nextTimerId, subscribesSeen>>
  /\ NoRequest
  /\ UNCHANGED <<cacheVars, restVars, clockVars, xformVars, dirVars>>
  /\ handled' = Completion(task, response)

\* Mutant of Unsubscribe: the handler cancels both lanes of the socket.
UnsubscribeBothLanes(c, lane) ==
  /\ socketState[c] = "connected"
  /\ intervals' = {t \in intervals : t.conn # c}
  /\ sportUpdateInterval' = [sportUpdateInterval EXCEPT ![c] = NoTimer]
  /\ eventUpdateInterval' = [eventUpdateInterval EXCEPT ![c] = NoTimer]
  /\ subscriptions' = [subscriptions EXCEPT ![c] = [sport |-> NoSub, event |-> NoSub]]
  /\ NoEmit
  /\ UNCHANGED <<socketState, nextTimerId, pending, subscribesSeen>>
  /\ NoRequest
  /\ UNCHANGED <<cacheVars, restVars, clockVars, xformVars, dirVars>>
  /\ handled' = [op |-> "unsubscribe", conn |-> c, lane |-> lane,
                      idle |-> subscriptions[c][lane] = NoSub /\ IntervalOf(c, lane) = NoTimer]

\* socket.on('unsubscribe_sport') / socket.on('unsubscribe_event').
Unsubscribe(c, lane) ==
  /\ socketState[c] = "connected"
  /\ intervals' = IF IntervalOf(c, lane) # NoTimer
                    THEN clearInterval(IntervalOf(c, lane))
                    ELSE intervals
  /\ IF lane = "sport"
       THEN /\ sportUpdateInterval' = [sportUpdateInterval EXCEPT ![c] = NoTimer]
            /\ UNCHANGED eventUpdateInterval
       ELSE /\ eventUpdateInterval' = [eventUpdateInterval EXCEPT ![c] = NoTimer]
            /\ UNCHANGED sportUpdateInterval
  /\ subscriptions' = [subscriptions EXCEPT ![c][lane] = NoSub]
  /\ NoEmit
  /\ UNCHANGED <<socketState, nextTimerId, pending, subscribesSeen>>
  /\ NoRequest
  /\ UNCHANGED <<cacheVars, restVars, clockVars, xformVars, dirVars>>
  /\ handled' = [op |-> "unsubscribe", conn |-> c, lane |-> lane,
                      idle |-> subscriptions[c][lane] = NoSub /\ IntervalOf(c, lane) = NoTimer]

UnsubscribeSport(c) == Unsubscribe(c, "sport")
UnsubscribeEvent(c) == Unsubscribe(c, "event")

\* socket.on('disconnect'): clears the interval each variable holds now.
Disconnect(c) ==
  /\ socketState[c] = "connected"
  /\ socketState' = [socketState EXCEPT ![c] = "disconnected"]
  /\ intervals' = {t \in intervals :
                     ~ \/ (sportUpdateInterval[c] # NoTimer /\ t.id = sportUpdateInterval[c])
                       \/ (eventUpdateInterval[c] # NoTimer /\ t.id = eventUpdateInterval[c])}
  /\ NoEmit
  /\ UNCHANGED <<subscriptions, sportUpdateInterval, eventUpdateInterval, nextTimerId,
                 pending, subscribesSeen>>
  /\ NoRequest
  /\ UNCHANGED <<cacheVars, restVars, clockVars, xformVars, dirVars>>
  /\ NoHandled

\* The steps of the sockets C, subscribing to the sport names Names.
StreamNext(C, Names) ==
  \/ \E c \in C, token \in Tokens : Handshake(c, token)
  \/ \E c \in C, sportName \in Names : SubscribeSport(c, sportName)
  \/ \E c \in C, sportName \in Names, eventId \in EventIds :
        SubscribeEvent(c, sportName, eventId)
  \/ \E c \in C : UnsubscribeSport(c)
  \/ \E c \in C : UnsubscribeEvent(c)
  \/ \E c \in C : Disconnect(c)
  \/ \E t \in intervals : IntervalFires(t)
  \/ \E task \in BagToSet(pending) :
        \E response \in apiRequest(getSportTypeId(task.key[1])) :
           SubscribeFetchDone(task, response)
  \/ \E task \in BagToSet(pending) :
        \E response \in apiRequest(getSportTypeId(task.key[1])) :
           CycleFetchDone(task, response)

(***************************************************************************)
(* The REST routes behind authenticateToken.                               *)
(***************************************************************************)
Requests == 1..MaxReq

IdleRequest ==
  [state |-> "idle", route |-> Absent, sportName |-> Absent, eventId |-> Absent,
   at |-> 0, fetched |-> FALSE, got |-> "none",
   status |-> 0, body |-> JsNull, token |-> Absent]

\* Mutant of authenticateToken: any token that is present passes.
authenticateTokenUnverified(token) ==
  IF token = "none" THEN 401 ELSE 0

\* authenticateToken: the status it answers with, or 0 when it calls next().
authenticateToken(token) ==
  IF token = "none" THEN 401
  ELSE IF ~jwtVerifies(token) THEN 403
  ELSE 0

AuthFailure(status) ==
  [success |-> FALSE,
   message |-> IF status = 401 THEN "Access token required" ELSE "Invalid or expired token"]

\* Requests are numbered by arrival.
Arrives(r) ==
  /\ requests[r].state = "idle"
  /\ \A q \in Requests : q < r => requests[q].state # "idle"

Arrived(r, route, sportName, eventId) ==
  [IdleRequest EXCEPT !.route = route, !.sportName = sportName, !.eventId = eventId,
                      !.at = now]

\* The request with the token its Authorization header carried.
Presenting(req, token) == [req EXCEPT !.token = token]

Respond(req, status, body) ==
  [req EXCEPT !.state = "done", !.status = status, !.body = body]

\* authenticateToken answers before the route's handler reads its parameters.
Refused(route, status) ==
  Respond(Arrived(0, route, Absent, Absent), status, AuthFailure(status))

\* GET /api/sports: the static list.
GetSports(r, token) ==
  /\ Arrives(r)
  /\ LET req == Presenting(Arrived(r, "sports", Absent, Absent), token)
         auth == authenticateToken(token)
     IN  requests' = [requests EXCEPT ![r] =
           IF auth # 0 THEN Presenting(Refused("sports", auth), token)
           ELSE Respond(req, 200, [success |-> TRUE,
                                   sports |-> <<"cricket", "football", "tennis">>])]
  /\ NoEmit /\ NoRequest
  /\ UNCHANGED <<streamVars, cacheVars, clockVars, xformVars, dirVars>>
  /\ NoHandled

\* GET /api/sport/:sportName up to its await: answer from the cache on a
\* hit, else issue the upstream request.
GetSport(r, token, sportName) ==
  /\ Arrives(r)
  /\ LET req == Presenting(Arrived(r, "sport", sportName, Absent), token)
         auth == authenticateToken(token)
         cacheKey == SportCacheKey(sportName)
     IN  IF auth # 0
           THEN /\ requests' = [requests EXCEPT ![r] = Presenting(Refused(req.route, auth), token)]
                /\ NoRequest
         ELSE IF CacheHit(sportsDataCache, cacheKey, CACHE_TTL, now)
           THEN /\ requests' = [requests EXCEPT ![r] =
                      Respond(req, 200, sportsDataCache[cacheKey].data)]
                /\ NoRequest
         ELSE /\ requests' = [requests EXCEPT ![r] =
                    [req EXCEPT !.state = "fetching", !.fetched = TRUE]]
              /\ upstream' = [by |-> "rest", cacheKey |-> cacheKey, fresh |-> FALSE]
  /\ NoEmit
  /\ UNCHANGED <<streamVars, cacheVars, clockVars, xformVars, dirVars>>
  /\ NoHandled

FetchFailure(message) == [success |-> FALSE, message |-> message]

\* Mutant of StoredEntry: the entry is stamped with the time the response
\* arrived instead of the time the handler started.
StoredEntryStampedLate(transformedData, at) == [data |-> transformedData, timestamp |-> now]

\* The entry a handler stores after a fetch: the transformed data, stamped
\* with the `now` the handler read before its await.
StoredEntry(transformedData, at) == [data |-> transformedData, timestamp |-> at]

\* Mutant of FetchOutcome: a failed fetch is answered with the stale entry
\* of the key when there is one.
FetchOutcomeServingStale(cache, cacheKey, at, response, transformedData, message) ==
  IF response.isNull
    THEN IF cacheKey \in DOMAIN cache /\ cache[cacheKey].data # JsNull
           THEN [cache |-> cache, got |-> "null", status |-> 200, body |-> cache[cacheKey].data]
           ELSE [cache |-> cache, got |-> "null", status |-> 500, body |-> FetchFailure(message)]
    ELSE [cache |-> (cacheKey :> StoredEntry(transformedData, at)) @@ cache,
          got |-> "data", status |-> 200, body |-> transformedData]

\* What both routes do with the upstream response: on null a 500 and the
\* cache as it is; otherwise the transformed data is stored and returned.
FetchOutcome(cache, cacheKey, at, response, transformedData, message) ==
  IF response.isNull
    THEN [cache |-> cache, got |-> "null", status |-> 500, body |-> FetchFailure(message)]
    ELSE [cache |-> (cacheKey :> StoredEntry(transformedData, at)) @@ cache,
          got |-> "data", status |-> 200, body |-> transformedData]

\* GET /api/sport/:sportName after its await.
SportFetchDone(r, response) ==
  /\ requests[r].state = "fetching"
  /\ requests[r].route = "sport"
  /\ response \in apiRequest(getSportTypeId(requests[r].sportName))
  /\ LET req == requests[r]
         cacheKey == SportCacheKey(req.sportName)
         out == FetchOutcome(sportsDataCache, cacheKey, req.at, response,
                             transformSportData(response, req.sportName, now),
                             "Failed to fetch sport data")
     IN  /\ sportsDataCache' = out.cache
         /\ requests' = [requests EXCEPT ![r] =
               Respond([req EXCEPT !.got = out.got], out.status, out.body)]
  /\ NoEmit /\ NoRequest
  /\ UNCHANGED <<streamVars, eventDataCache, clockVars, xformVars, dirVars>>
  /\ NoHandled

\* GET /api/event/:sportName/:eventId up to its await.
GetEvent(r, token, sportName, eventId) ==
  /\ Arrives(r)
  /\ LET req == Presenting(Arrived(r, "event", sportName, eventId), token)
         auth == authenticateToken(token)
         cacheKey == EventCacheKey(sportName, eventId)
     IN  IF auth # 0
           THEN /\ requests' = [requests EXCEPT ![r] = Presenting(Refused(req.route, auth), token)]
                /\ NoRequest
         ELSE IF CacheHit(eventDataCache, cacheKey, EVENT_CACHE_TTL, now)
           THEN /\ requests' = [requests EXCEPT ![r] =
                      Respond(req, 200, eventDataCache[cacheKey].data)]
                /\ NoRequest
         ELSE /\ requests' = [requests EXCEPT ![r] =
                    [req EXCEPT !.state = "fetching", !.fetched = TRUE]]
              /\ upstream' = [by |-> "rest", cacheKey |-> cacheKey, fresh |-> FALSE]
  /\ NoEmit
  /\ UNCHANGED <<streamVars, cacheVars, clockVars, xformVars, dirVars>>
  /\ NoHandled

\* GET /api/event/:sportName/:eventId after its await.
EventFetchDone(r, response) ==
  /\ requests[r].state = "fetching"
  /\ requests[r].route = "event"
  /\ response \in apiRequest(getSportTypeId(requests[r].sportName))
  /\ LET req == requests[r]
         cacheKey == EventCacheKey(req.sportName, req.eventId)
         out == FetchOutcome(eventDataCache, cacheKey, req.at, response,
                             transformEventData(response, req.sportName, now),
                             "Failed to fetch event data")
     IN  /\ eventDataCache' = out.cache
         /\ requests' = [requests EXCEPT ![r] =
               Respond([req EXCEPT !.got = out.got], out.status, out.body)]
  /\ NoEmit /\ NoRequest
  /\ UNCHANGED <<streamVars, sportsDataCache, clockVars, xformVars, dirVars>>
  /\ NoHandled

\* The steps of the requests R to the two cached routes, presenting the
\* tokens Toks and naming the sports Names.
CachedRoutesNext(R, Toks, Names) ==
  \/ \E r \in R, token \in Toks, sportName \in Names : GetSport(r, token, sportName)
  \/ \E r \in R, token \in Toks, sportName \in Names, eventId \in EventIds :
        GetEvent(r, token, sportName, eventId)
  \/ \E r \in R :
        \E response \in apiRequest(getSportTypeId(requests[r].sportName)) :
           SportFetchDone(r, response)
  \/ \E r \in R :
        \E response \in apiRequest(getSportTypeId(requests[r].sportName)) :
           EventFetchDone(r, response)

\* The steps of the REST requests R to all three routes.
RestNext(R, Toks, Names) ==
  \/ \E r \in R, token \in Toks : GetSports(r, token)
  \/ CachedRoutesNext(R, Toks, Names)

(***************************************************************************)
(* The clock.  One short step leaves an entry inside both freshness        *)
(* windows, two short steps make an event entry exactly as old as its      *)
(* window, and a short and a long step do the same to a sport entry.       *)
(***************************************************************************)
ClockSteps == {EVENT_CACHE_TTL \div 2, CACHE_TTL - EVENT_CACHE_TTL \div 2}

Tick(d) ==
  /\ ticks < MaxTicks
  /\ ticks' = ticks + 1
  /\ now' = now + d
  /\ NoEmit /\ NoRequest /\ NoHandled
  /\ UNCHANGED <<streamVars, cacheVars, restVars, xformVars, dirVars>>

(***************************************************************************)
(* Calls of the transformer on the payload `raw`.                          *)
(***************************************************************************)
TransformSport ==
  /\ transformed' = [fn |-> "transformSportData",
                     out |-> transformSportData(raw, "cricket", now)]
  /\ NoEmit /\ NoRequest /\ NoHandled
  /\ UNCHANGED <<streamVars, cacheVars, restVars, clockVars, raw, dirVars>>

TransformEvent ==
  /\ transformed' = [fn |-> "transformEventData",
                     out |-> transformEventData(raw, "cricket", now)]
  /\ NoEmit /\ NoRequest /\ NoHandled
  /\ UNCHANGED <<streamVars, cacheVars, restVars, clockVars, raw, dirVars>>

\* transformMarket on the i-th record of the payload.
TransformMarket(i) ==
  /\ i \in 1..Len(raw.result)
  /\ transformed' = [fn |-> "transformMarket", index |-> i,
                     out |-> transformMarket(raw.result[i])]
  /\ NoEmit /\ NoRequest /\ NoHandled
  /\ UNCHANGED <<streamVars, cacheVars, restVars, clockVars, raw, dirVars>>

(***************************************************************************)
(* The user directory: login, logout, add user, delete user.  A handler    *)
(* runs without interruption up to its next await; saveUsers writes the    *)
(* users file, which nothing reads after startup.                          *)
(***************************************************************************)
MAX_DEVICES_PER_USER == 2

\* The names and passwords requests carry.
Usernames == {"admin@infusion810", "ann", "bob"}
Passwords == {"pw", "bad"}

\* A user object.  `ref` is the identity of the object: a handler that holds
\* `user` across an await holds the object, not its place in the array.
NewUser(ref, id, username, password) ==
  [ref |-> ref, id |-> id, username |-> username, password |-> password,
   activeSessions |-> <<>>]

\* generateRandomUsername, for the i-th generated user (names taken distinct).
GeneratedNames == <<"user1", "user2", "user3">>

\* loadOrCreateUsers without a users file: the admin with id 1, then the
\* generated users with ids 2, 3, ...
InitialUsers ==
  <<NewUser(1, 1, "admin@infusion810", "pw")>> \o
  [i \in 1..GeneratedUsers |-> NewUser(i + 1, i + 1, GeneratedNames[i], "pw")]

\* Array.prototype.findIndex, 0 standing for -1: the first place whose
\* element has the id / the username.
findIndexById(id) ==
  IF \E i \in 1..Len(users) : users[i].id = id
    THEN CHOOSE i \in 1..Len(users) :
           /\ users[i].id = id
           /\ \A j \in 1..(i - 1) : users[j].id # id
    ELSE 0

findIndexByUsername(username) ==
  IF \E i \in 1..Len(users) : users[i].username = username
    THEN CHOOSE i \in 1..Len(users) :
           /\ users[i].username = username
           /\ \A j \in 1..(i - 1) : users[j].username # username
    ELSE 0

\* The object a handler holds under `ref`, in the array or spliced out of it.
UserObject(ref) ==
  IF \E i \in 1..Len(users) : users[i].ref = ref
    THEN users[CHOOSE i \in 1..Len(users) : users[i].ref = ref]
    ELSE CHOOSE d \in detached : d.ref = ref

\* Math.max(...users.map(u => u.id), 0)
maxId ==
  IF users = <<>> THEN 0
  ELSE CHOOSE m \in {users[i].id : i \in 1..Len(users)} :
         \A i \in 1..Len(users) : users[i].id <= m

\* What a step of the directory leaves alone.
DirectoryFrame ==
  /\ NoEmit /\ NoRequest
  /\ UNCHANGED <<streamVars, cacheVars, restVars, clockVars, xformVars>>

Answered(op, status) == handled' = [op |-> op, status |-> status]

\* POST /api/auth/login up to `await bcrypt.compare`: 401 for an unknown
\* username, else the handler holds the user object and awaits the compare,
\* whose arguments it has read.  Status 0: no response yet.
LoginArrives(username, password) ==
  /\ loginsSeen < MaxLogins
  /\ loginsSeen' = loginsSeen + 1
  /\ LET at == findIndexByUsername(username)
     IN  IF at = 0
           THEN /\ Answered("login", 401)
                /\ UNCHANGED logins
           ELSE /\ Answered("login", 0)
                /\ logins' = logins \cup
                     {[n |-> loginsSeen + 1, user |-> users[at].ref,
                       isPasswordValid |-> (password = users[at].password)]}
  /\ UNCHANGED <<users, detached, adds, issued, addsSeen>>
  /\ DirectoryFrame

\* The limit check of login on the object the handler holds.
AtDeviceLimit(user) == Len(user.activeSessions) >= MAX_DEVICES_PER_USER

\* POST /api/auth/login after the await: 401 for a wrong password, 403 at the
\* device limit, else a session with a fresh id is pushed onto
\* users[findIndex(u => u.id === user.id)], the users are saved and the token
\* is sent.  When no user has the id, users[-1] is undefined and the handler
\* throws a TypeError after jwt.sign; nothing catches it and no response is
\* sent (status 0, threw).  The session id has 32 random characters: it is
\* taken fresh, here the number of the request.
LoginCompared(l) ==
  /\ l \in logins
  /\ logins' = logins \ {l}
  /\ LET user == UserObject(l.user)
         userIndex == findIndexById(user.id)
         token == [id |-> user.id, username |-> user.username, sessionId |-> l.n]
     IN  IF ~l.isPasswordValid
           THEN /\ Answered("login", 401)
                /\ UNCHANGED <<users, issued>>
         ELSE IF AtDeviceLimit(user)
           THEN /\ Answered("login", 403)
                /\ UNCHANGED <<users, issued>>
         ELSE IF userIndex = 0
           THEN /\ handled' = [op |-> "login", status |-> 0, threw |-> TRUE]
                /\ issued' = issued \cup {token}
                /\ UNCHANGED users
           ELSE /\ Answered("login", 200)
                /\ issued' = issued \cup {token}
                /\ users' = [users EXCEPT ![userIndex].activeSessions =
                                Append(@, [sessionId |-> l.n])]
  /\ UNCHANGED <<detached, adds, loginsSeen, addsSeen>>
  /\ DirectoryFrame

\* POST /api/auth/logout behind authenticateToken, with a token the server
\* has signed: 404 when no user has the token's id, else the sessions of the
\* first user with that id lose the token's session, the users are saved, 200.
Logout(token) ==
  /\ token \in issued
  /\ LET userIndex == findIndexById(token.id)
     IN  IF userIndex = 0
           THEN /\ Answered("logout", 404)
                /\ UNCHANGED users
           ELSE /\ Answered("logout", 200)
                /\ LET keep(session) == session.sessionId # token.sessionId
                   IN  users' = [users EXCEPT ![userIndex].activeSessions =
                                   SelectSeq(@, keep)]
  /\ UNCHANGED <<detached, logins, adds, issued, loginsSeen, addsSeen>>
  /\ DirectoryFrame

\* POST /api/admin/users up to `await bcrypt.genSalt`: 400 when the username
\* is taken, else the id is computed and the handler awaits the hash.
AddUserArrives(username, password) ==
  /\ addsSeen < MaxAdds
  /\ addsSeen' = addsSeen + 1
  /\ IF findIndexByUsername(username) # 0
       THEN /\ Answered("add", 400)
            /\ UNCHANGED adds
       ELSE /\ Answered("add", 0)
            /\ adds' = adds \cup
                 {[n |-> addsSeen + 1, id |-> maxId + 1,
                   username |-> username, password |-> password]}
  /\ UNCHANGED <<users, detached, logins, issued, loginsSeen>>
  /\ DirectoryFrame

\* POST /api/admin/users after the hash: the new user is pushed, the users
\* are saved, 200.
AddUserHashed(a) ==
  /\ a \in adds
  /\ adds' = adds \ {a}
  /\ users' = Append(users, NewUser(1 + GeneratedUsers + a.n, a.id,
                                    a.username, a.password))
  /\ Answered("add", 200)
  /\ UNCHANGED <<detached, logins, issued, loginsSeen, addsSeen>>
  /\ DirectoryFrame

\* DELETE /api/admin/users/:id : 404 when no user has the id, else the first
\* user with it is spliced out, the users are saved, 200.
DeleteUser(userId) ==
  /\ LET userIndex == findIndexById(userId)
     IN  IF userIndex = 0
           THEN /\ Answered("delete", 404)
                /\ UNCHANGED <<users, detached>>
           ELSE /\ Answered("delete", 200)
                /\ users' = SubSeq(users, 1, userIndex - 1) \o
                            SubSeq(users, userIndex + 1, Len(users))
                /\ detached' = detached \cup {users[userIndex]}
  /\ UNCHANGED <<logins, adds, issued, loginsSeen, addsSeen>>
  /\ DirectoryFrame

\* The ids a delete request can name.
UserIds == 1..(1 + GeneratedUsers + MaxAdds)

\* The auth routes, logins carrying names of Names and passwords of Pws.
AuthNext(Names, Pws) ==
  \/ \E username \in Names, password \in Pws : LoginArrives(username, password)
  \/ \E l \in logins : LoginCompared(l)
  \/ \E token \in issued : Logout(token)

\* The admin routes, add-user requests carrying names of Names.
AdminNext(Names) ==
  \/ \E username \in Names : AddUserArrives(username, "pw")
  \/ \E a \in adds : AddUserHashed(a)
  \/ \E userId \in UserIds : DeleteUser(userId)

(***************************************************************************)
(* Specifications.                                                         *)
(***************************************************************************)
ServerInit ==
  /\ socketState = [c \in Conns |-> "new"]
  /\ subscriptions = [c \in Conns |-> [sport |-> NoSub, event |-> NoSub]]
  /\ sportUpdateInterval = [c \in Conns |-> NoTimer]
  /\ eventUpdateInterval = [c \in Conns |-> NoTimer]
  /\ intervals = {}
  /\ nextTimerId = 1
  /\ pending = EmptyBag
  /\ emit = NoEmission
  /\ subscribesSeen = 0
  /\ sportsDataCache = [k \in {"cricket", "football", "tennis"} |-> EmptyEntry]
  /\ eventDataCache = <<>>
  /\ requests = [r \in Requests |-> IdleRequest]
  /\ upstream = NoUpstream
  /\ now = CACHE_TTL    \* the process starts some time after the epoch
  /\ ticks = 0
  /\ handled = NoMessage
  /\ transformed = NoCall
  /\ users = InitialUsers
  /\ detached = {}
  /\ logins = {}
  /\ adds = {}
  /\ issued = {}
  /\ loginsSeen = 0
  /\ addsSeen = 0

Init == ServerInit /\ raw = NoData

\* The subscription engine alone, every socket.
Next == StreamNext(Conns, SubscribedNames)
Spec == Init /\ [][Next]_vars

\* The two cached routes behind the gate (every request presents a valid
\* token) and the clock.
NextCache ==
  \/ CachedRoutesNext(Requests, {"good"}, RequestedNames)
  \/ \E d \in ClockSteps : Tick(d)
SpecCache == Init /\ [][NextCache]_vars

\* One socket and one REST request, both about cricket: the streaming cycles
\* next to the cache the REST routes fill.
NextFlow == StreamNext({1}, {"cricket"}) \/ RestNext({1}, Tokens, {"cricket"})
SpecFlow == Init /\ [][NextFlow]_vars

\* The transformer, on every raw payload of RawInputs.
InitTransform == ServerInit /\ raw \in RawInputs
NextTransform ==
  \/ TransformSport
  \/ TransformEvent
  \/ \E i \in 1..MaxMarkets : TransformMarket(i)
SpecTransform == InitTransform /\ [][NextTransform]_vars

\* Two sockets subscribing to cricket.
NextPair == StreamNext({1, 2}, {"cricket"})
SpecPair == Init /\ [][NextPair]_vars

\* One socket subscribing to cricket: its two lanes.
NextLane == StreamNext({1}, {"cricket"})
SpecLane == Init /\ [][NextLane]_vars

\* The same under the assumption that every upstream request returns:
\* axios.get is called without a timeout, so nothing in the code makes it.
UpstreamReturns ==
  /\ WF_vars(\E task \in BagToSet(pending) :
               \E response \in apiRequest(getSportTypeId(task.key[1])) :
                  SubscribeFetchDone(task, response))
  /\ WF_vars(\E task \in BagToSet(pending) :
               \E response \in apiRequest(getSportTypeId(task.key[1])) :
                  CycleFetchDone(task, response))
SpecLaneLive == Init /\ [][NextLane]_vars /\ UpstreamReturns

\* The admin routes of the user directory.
NextAdmin == AdminNext(Usernames)
SpecAdmin == Init /\ [][NextAdmin]_vars

\* The auth routes of the user directory.
NextAuth == AuthNext(Usernames, Passwords)
SpecAuth == Init /\ [][NextAuth]_vars

\* The user directory: the admin routes adding ann and bob, and the auth
\* routes with logins of ann and bob under their passwords.
NextDirectory == AuthNext({"ann", "bob"}, {"pw"}) \/ AdminNext({"ann", "bob"})
SpecDirectory == Init /\ [][NextDirectory]_vars

(***************************************************************************)
(* The subscription engine's claims (specification Spec).                  *)
(***************************************************************************)
TimersOf(c, lane) == {t \in intervals : t.conn = c /\ t.lane = lane}

\* C1: for every socket and each lane, at most one repeating timer is armed
\* for that lane in every reachable state.
C1_AtMostOneTimerPerLane ==
  \A c \in Conns, lane \in Lanes : Cardinality(TimersOf(c, lane)) <= 1

\* C2: once a socket's disconnect has been handled, no sport_update or
\* event_update is emitted on it: every emission is made on a socket that is
\* still connected.
C2_NoEmitAfterDisconnect ==
  emit.event # "none" => emit.connected

\* C3: no timer outlives its socket: after the disconnect has been handled
\* the socket has no armed timer.
C3_NoTimerOutlivesSocket ==
  \A t \in intervals : socketState[t.conn] # "disconnected"

\* C9: between an unsubscribe and the next subscribe on the lane (the lane's
\* subscription is null throughout), a connected socket has no timer armed
\* for that lane.
C9_NoTimerWhileUnsubscribed ==
  \A c \in Conns, lane \in Lanes :
    (socketState[c] = "connected" /\ subscriptions[c][lane] = NoSub)
      => TimersOf(c, lane) = {}

\* C10: once a subscribe for another key has replaced a subscription, no
\* update carrying the replaced key's data is emitted: an update emitted while
\* the lane is subscribed carries the key the lane is subscribed to.
C10_NoUpdateForReplacedKey ==
  (emit.event # "none" /\ emit.connected /\ emit.current # NoSub)
    => emit.key = emit.current

(***************************************************************************)
(* The cache layer's claims (specification SpecCache).                     *)
(***************************************************************************)
\* The cache, key and freshness window of a request that passed the gate.
CacheOf(req) == IF req.route = "sport" THEN sportsDataCache ELSE eventDataCache
KeyOf(req) ==
  IF req.route = "sport" THEN SportCacheKey(req.sportName)
                         ELSE EventCacheKey(req.sportName, req.eventId)
WindowOf(req) == IF req.route = "sport" THEN 300000 ELSE 10000

HasEntry(req) ==
  /\ KeyOf(req) \in DOMAIN CacheOf(req)
  /\ CacheOf(req)[KeyOf(req)].data # JsNull

\* Request r arrives in this step and reaches the handler of a cached route.
ArrivesAtCache(r) ==
  /\ requests[r].state = "idle"
  /\ requests'[r].state # "idle"
  /\ requests'[r].route \in {"sport", "event"}
  /\ requests'[r].status \notin {401, 403}

\* C4: the stored timestamp of a cache key never decreases.
C4_TimestampsNeverDecrease ==
  [][ /\ \A k \in DOMAIN sportsDataCache :
           sportsDataCache'[k].timestamp >= sportsDataCache[k].timestamp
      /\ \A k \in DOMAIN eventDataCache :
           eventDataCache'[k].timestamp >= eventDataCache[k].timestamp ]_vars

SportCall(r) == requests[r].state # "idle" /\ requests[r].route = "sport"
SameKey(r1, r2) == SportCacheKey(requests[r1].sportName) = SportCacheKey(requests[r2].sportName)

\* The only calls made so far for r1's sport key are r1 and r2.
OnlyCalls(r1, r2) ==
  \A q \in Requests \ {r1, r2} : ~(SportCall(q) /\ SameKey(q, r1))

\* C5 (as claimed): two answered calls for one sport key, made within the
\* window of each other with the upstream succeeding, return the same payload
\* and exactly one of them fetched, also when they overlap.
C5_TwoCallsOneFetch ==
  \A r1, r2 \in Requests :
    ( /\ r1 < r2
      /\ SportCall(r1) /\ SportCall(r2) /\ SameKey(r1, r2) /\ OnlyCalls(r1, r2)
      /\ requests[r1].state = "done" /\ requests[r1].status = 200
      /\ requests[r2].state = "done" /\ requests[r2].status = 200
      /\ requests[r2].at - requests[r1].at < 300000 )
    => /\ requests[r1].body = requests[r2].body
       /\ requests[r1].fetched /\ ~requests[r2].fetched

\* C5 (amended): when the second call for a sport key arrives after the first
\* call's fetch has been answered with data, it is answered with the first
\* call's payload and without a fetch if it arrives within the window, and it
\* fetches if the window has expired; when it arrives while the first call's
\* fetch is still in flight, it issues its own fetch.
C5_SecondCallAfterFirstAnswered ==
  [][ \A r1, r2 \in Requests :
        ( /\ ArrivesAtCache(r2)
          /\ requests'[r2].route = "sport"
          /\ SportCall(r1) /\ requests[r1].fetched
          /\ SportCacheKey(requests[r1].sportName) = SportCacheKey(requests'[r2].sportName)
          /\ OnlyCalls(r1, r2) )
        => /\ ( requests[r1].state = "done" /\ requests[r1].got = "data"
                /\ now - requests[r1].at < 300000 )
                => /\ requests'[r2].state = "done"
                   /\ requests'[r2].status = 200
                   /\ requests'[r2].body = requests[r1].body
                   /\ ~requests'[r2].fetched
                   /\ upstream' = NoUpstream
           /\ ( requests[r1].state = "done" /\ requests[r1].got = "data"
                /\ now - requests[r1].at >= 300000 )
                => requests'[r2].fetched /\ upstream'.by = "rest"
           /\ requests[r1].state = "fetching"
                => requests'[r2].fetched /\ upstream'.by = "rest" ]_vars

\* Witness of C5: a second call answered from the first call's entry, some
\* time after the first call.
C5_Witness ==
  \E r1, r2 \in Requests :
    /\ r1 < r2 /\ SportCall(r1) /\ SportCall(r2) /\ SameKey(r1, r2)
    /\ requests[r1].state = "done" /\ requests[r1].got = "data"
    /\ requests[r2].state = "done" /\ ~requests[r2].fetched /\ requests[r2].status = 200
    /\ requests[r2].at > requests[r1].at
    /\ requests[r2].body = requests[r1].body

\* C6: a request that finds an entry younger than its window (5 minutes for
\* a sport, 10 seconds for an event) is answered with the entry's payload,
\* issues no upstream request and leaves the caches as they are; one that
\* finds an entry as old as the window or older issues an upstream request.
C6_FreshEntryServedStaleFetched ==
  [][ \A r \in Requests :
        (ArrivesAtCache(r) /\ HasEntry(requests'[r]))
        => LET req == requests'[r]
               age == now - CacheOf(req)[KeyOf(req)].timestamp
           IN  /\ age < WindowOf(req)
                    => /\ req.state = "done"
                       /\ req.status = 200
                       /\ req.body = CacheOf(req)[KeyOf(req)].data
                       /\ upstream' = NoUpstream
                       /\ UNCHANGED cacheVars
               /\ age >= WindowOf(req)
                    => /\ req.state = "fetching"
                       /\ upstream' = [by |-> "rest", cacheKey |-> KeyOf(req), fresh |-> FALSE] ]_vars

\* Witness of C6: a request answered from an entry that had aged, and an
\* entry exactly as old as its window.
C6_Witness ==
  \E r \in Requests :
    /\ requests[r].state = "done" /\ requests[r].status = 200 /\ ~requests[r].fetched
    /\ requests[r].route \in {"sport", "event"}
    /\ HasEntry(requests[r])
    /\ requests[r].at > CacheOf(requests[r])[KeyOf(requests[r])].timestamp
    /\ requests[r].body = CacheOf(requests[r])[KeyOf(requests[r])].data

\* C7: when the upstream fetch of a request fails, the answer is a 500 with
\* success=false, the caches are left exactly as they were, and the answer is
\* not the stale payload of the key.
C7_FailedFetchLeavesCache ==
  [][ \A r \in Requests :
        (requests[r].state = "fetching" /\ requests'[r].got = "null")
        => /\ requests'[r].state = "done"
           /\ requests'[r].status = 500
           /\ requests'[r].body.success = FALSE
           /\ UNCHANGED cacheVars
           /\ HasEntry(requests[r])
                => requests'[r].body # CacheOf(requests[r])[KeyOf(requests[r])].data ]_vars

\* Witness of C7: a request whose fetch failed while the cache held a stale
\* entry for its key.
C7_Witness ==
  \E r \in Requests :
    /\ requests[r].state = "done" /\ requests[r].got = "null"
    /\ HasEntry(requests[r])
    /\ requests[r].at - CacheOf(requests[r])[KeyOf(requests[r])].timestamp
         >= WindowOf(requests[r])

UpdateOf(lane) == IF lane = "sport" THEN "sport_update" ELSE "event_update"

\* C11: a cycle whose fetch fails (apiRequest resolves to null) emits
\* nothing, leaves the lane's subscription as it is and clears no timer (a
\* failed tick leaves every timer and both interval variables as they were);
\* a cycle whose fetch returns data emits the lane's update to its socket.
C11_FailedTickSkipsAndStaysArmed ==
  [][ handled'.op = "cycle" =>
        /\ handled'.failed =>
              /\ emit' = NoEmission
              /\ subscriptions' = subscriptions
              /\ socketState' = socketState
              /\ intervals \subseteq intervals'
              /\ handled'.kind = "tick" =>
                    /\ intervals' = intervals
                    /\ sportUpdateInterval' = sportUpdateInterval
                    /\ eventUpdateInterval' = eventUpdateInterval
        /\ ~handled'.failed =>
              /\ emit'.event = UpdateOf(handled'.lane)
              /\ emit'.conn = handled'.conn
              /\ emit'.key = handled'.key ]_vars

\* Witness of C11: a tick of a subscribed lane has just failed, and the
\* lane's timer is still armed.
C11_Witness ==
  /\ handled.op = "cycle" /\ handled.kind = "tick" /\ handled.failed
  /\ socketState[handled.conn] = "connected"
  /\ subscriptions[handled.conn][handled.lane] = handled.key
  /\ \E t \in intervals :
        /\ t.conn = handled.conn /\ t.lane = handled.lane /\ t.key = handled.key
        /\ t.id = IntervalOf(handled.conn, handled.lane)

\* The lane of a socket is Unsubscribed: no subscription and no timer handle.
Unsubscribed(c, lane) ==
  subscriptions[c][lane] = NoSub /\ IntervalOf(c, lane) = NoTimer

\* C19: an unsubscribe handled on a lane that is Unsubscribed changes
\* nothing of the server's state, emits nothing and requests nothing; every
\* unsubscribe leaves its lane Unsubscribed, and one that directly follows an
\* unsubscribe of the same lane changes nothing.
C19_UnsubscribeIdempotent ==
  [][ \A c \in Conns, lane \in Lanes :
        (handled'.op = "unsubscribe" /\ handled'.conn = c /\ handled'.lane = lane)
        => /\ Unsubscribed(c, lane)
                => /\ UNCHANGED <<streamVars, cacheVars, restVars, clockVars>>
                   /\ emit' = NoEmission /\ upstream' = NoUpstream
           /\ Unsubscribed(c, lane)'
           /\ (handled.op = "unsubscribe" /\ handled.conn = c /\ handled.lane = lane)
                => UNCHANGED <<streamVars, cacheVars, restVars, clockVars>> ]_vars

\* Witness of C19: an unsubscribe has just been handled on a lane that was
\* Unsubscribed, on a socket whose other lane has its timer armed.
C19_Witness ==
  /\ handled.op = "unsubscribe" /\ handled.idle
  /\ \E t \in intervals : t.conn = handled.conn /\ t.lane # handled.lane

(***************************************************************************)
(* The gate in front of the data (specification SpecFlow).                 *)
(***************************************************************************)
\* Nothing of socket c's closure has ever been touched.
Untouched(c) ==
  /\ subscriptions[c] = [sport |-> NoSub, event |-> NoSub]
  /\ sportUpdateInterval[c] = NoTimer /\ eventUpdateInterval[c] = NoTimer
  /\ \A t \in intervals : t.conn # c
  /\ \A task \in BagToSet(pending) : task.conn # c

\* C12: a request to any of the three routes is answered 401 when its token
\* is missing and 403 when the token fails verification, with the uniform
\* failure body, in the step it arrives, which changes no cache and issues no
\* upstream request, and it is never handled further; a handshake with a
\* missing or failing token is rejected, and a rejected socket stays rejected:
\* it never subscribes, never has a cycle or timer and is never emitted to.
C12_NoDataWithoutCredential ==
  [][ /\ \A r \in Requests :
           (requests[r].state = "idle" /\ requests'[r].state # "idle")
           => LET req == requests'[r]
              IN  /\ req.route \in {"sports", "sport", "event"}
                  /\ req.token \in {"none", "bad"}
                       => /\ req.state = "done"
                          /\ req.status = IF req.token = "none" THEN 401 ELSE 403
                          /\ req.body.success = FALSE
                          /\ DOMAIN req.body = {"success", "message"}
                          /\ ~req.fetched
                          /\ upstream' = NoUpstream
                          /\ UNCHANGED cacheVars
                  /\ req.token = "good" => req.status \notin {401, 403}
      /\ \A r \in Requests :
           requests[r].token \in {"none", "bad"} => requests'[r] = requests[r]
      /\ handled'.op = "handshake"
           => (handled'.token # "good" <=> socketState'[handled'.conn] = "rejected")
      /\ \A c \in Conns :
           socketState'[c] \in {"new", "rejected"} =>
             /\ socketState[c] \in {"new", "rejected"}
             /\ Untouched(c)'
             /\ emit'.event # "none" => emit'.conn # c ]_vars

\* Witness of C12: a request refused for a token that fails verification,
\* next to a socket rejected at its handshake.
C12_Witness ==
  /\ \E r \in Requests :
        /\ requests[r].token = "bad" /\ requests[r].status = 403
        /\ requests[r].route \in {"sport", "event"}
  /\ socketState[1] = "rejected"

(***************************************************************************)
(* The transformer's claims (specification SpecTransform).                 *)
(***************************************************************************)
SportCalled == transformed.fn = "transformSportData"
EventCalled == transformed.fn = "transformEventData"

\* The records of the payload that carry an event id, and their event ids.
HasEventId(market) == ~market.isNull /\ market.event.present /\ market.event.id # Absent
EventIdsIn(list) == {list[i].event.id : i \in {j \in 1..Len(list) : HasEventId(list[j])}}

\* The places of a sport payload where a Match is listed: competition i,
\* entry j of its match list.
Places(out) ==
  UNION { {<<i, j>> : j \in 1..Len(out.competitions[i].matches)} :
          i \in 1..Len(out.competitions) }
MatchAt(out, p) == out.competitions[p[1]].matches[p[2]]
PlacesOf(out, eventId) == {p \in Places(out) : MatchAt(out, p).id = eventId}

\* C13: in a successful result of transformSportData every event id that has
\* a market record is the id of a Match listed in the payload, and matchCount
\* is the number of Matches listed in the payload.
C13_MatchesWithoutCompetitionRetained ==
  (SportCalled /\ transformed.out.success)
    => /\ \A e \in EventIdsIn(raw.result) : PlacesOf(transformed.out, e) # {}
       /\ transformed.out.matchCount = Cardinality(Places(transformed.out))

\* The bucket the rules of transformEventData, taken in their order, put a
\* market name in.
CategoryOf(name) ==
  IF name = "Match Odds" THEN "matchOdds"
  ELSE IF name = "Tied Match" THEN "tiedMatch"
  ELSE IF includes(name, "Over/Under") THEN "overUnderMarkets"
  ELSE IF includes(name, "Set") THEN "setMarkets"
  ELSE IF includes(name, "Game") THEN "gameMarkets"
  ELSE "otherMarkets"

ListBuckets == {"overUnderMarkets", "setMarkets", "gameMarkets", "otherMarkets"}

\* The buckets of groupedMarkets that market m appears in.
BucketsOf(grouped, m) ==
  {b \in {"matchOdds", "tiedMatch"} : grouped[b] = m}
    \cup {b \in ListBuckets : \E k \in 1..Len(grouped[b]) : grouped[b][k] = m}

\* C14: in a successful result of transformEventData every transformed
\* market appears in exactly one bucket, the first one in the order
\* matchOdds, tiedMatch, overUnderMarkets, setMarkets, gameMarkets,
\* otherMarkets whose rule its name satisfies.
C14_BucketsExclusiveByPriority ==
  (EventCalled /\ transformed.out.success)
    => \A k \in 1..Len(transformed.out.markets) :
         LET m == transformed.out.markets[k]
         IN  BucketsOf(transformed.out.groupedMarkets, m) = {CategoryOf(m.name)}

\* The Market entries of event eventId: its records that have runners,
\* transformed, in the order of the payload.
UsableMarketsOf(list, eventId) ==
  LET Usable(market) == /\ HasEventId(market)
                        /\ market.event.id = eventId
                        /\ market.runners.present
      kept == SelectSeq(list, Usable)
  IN  [i \in 1..Len(kept) |-> transformMarket(kept[i])]

\* C15: a successful result of transformSportData lists exactly one Match
\* per distinct event id of the payload, with exactly the usable markets of
\* that event id in payload order, and lists no Match for anything else.
C15_OneMatchPerEventId ==
  (SportCalled /\ transformed.out.success)
    => /\ \A e \in EventIdsIn(raw.result) :
            /\ Cardinality(PlacesOf(transformed.out, e)) = 1
            /\ \A p \in PlacesOf(transformed.out, e) :
                  MatchAt(transformed.out, p).markets = UsableMarketsOf(raw.result, e)
       /\ \A p \in Places(transformed.out) :
            MatchAt(transformed.out, p).id \in EventIdsIn(raw.result)

\* Some record of event eventId carries a competition id and name.
CarriesCompetition(list, eventId) ==
  \E i \in 1..Len(list) :
    /\ HasEventId(list[i]) /\ list[i].event.id = eventId
    /\ list[i].competition.id # Absent /\ list[i].competition.name # Absent

\* C20: in a successful result of transformSportData every event of which
\* some record carries a competition id and name is listed as a Match exactly
\* once, in exactly one competition, whatever the order of its records.
C20_MatchInExactlyOneCompetition ==
  (SportCalled /\ transformed.out.success)
    => \A e \in EventIdsIn(raw.result) :
         CarriesCompetition(raw.result, e)
           => Cardinality(PlacesOf(transformed.out, e)) = 1

\* The ids of the records that lack a runners field.
WithoutRunners(list) ==
  {list[i].id : i \in {j \in 1..Len(list) : ~list[j].isNull /\ ~list[j].runners.present}}

IdsIn(markets) == {markets[k].id : k \in 1..Len(markets)}

\* What makes a transform fail: no payload, no result, a result that is not
\* a list and, for transformSportData, a null record in the list.
MustFail(fn, data) ==
  \/ data.isNull \/ ~data.hasResult \/ ~data.isList
  \/ fn = "transformSportData" /\ \E i \in 1..Len(data.result) : data.result[i].isNull

\* C16: transformMarket returns null for a record without runners; no such
\* record is in a Match's market list of transformSportData, nor in the
\* markets list or a bucket of transformEventData; and a transform fails only
\* for a reason other than such a record.
C16_MarketsWithoutRunnersExcluded ==
  /\ transformed.fn = "transformMarket"
       => (~raw.result[transformed.index].runners.present => transformed.out = JsNull)
  /\ (SportCalled /\ transformed.out.success)
       => \A p \in Places(transformed.out) :
            IdsIn(MatchAt(transformed.out, p).markets) \cap WithoutRunners(raw.result) = {}
  /\ (EventCalled /\ transformed.out.success)
       => LET grouped == transformed.out.groupedMarkets
              lacking == WithoutRunners(raw.result)
          IN  /\ IdsIn(transformed.out.markets) \cap lacking = {}
              /\ \A b \in ListBuckets : IdsIn(grouped[b]) \cap lacking = {}
              /\ \A b \in {"matchOdds", "tiedMatch"} :
                    grouped[b] # JsNull => grouped[b].id \notin lacking
  /\ (SportCalled \/ EventCalled)
       => (transformed.out.success <=> ~MustFail(transformed.fn, raw))

\* Witness of C16: a successful sport result for a payload in which a record
\* without runners follows a usable record of the same event.
C16_Witness ==
  /\ SportCalled /\ transformed.out.success
  /\ WithoutRunners(raw.result) # {}
  /\ \E p \in Places(transformed.out) :
        /\ Len(MatchAt(transformed.out, p).markets) = 1
        /\ \E i \in 1..Len(raw.result) :
              /\ ~raw.result[i].runners.present
              /\ raw.result[i].event.id = MatchAt(transformed.out, p).id

\* C17: transformSportData and transformEventData return a value for every
\* payload, and the value is {success: false, message, sport} whenever the
\* payload or its result is absent or the transform throws.
C17_TransformsNeverRaise ==
  (SportCalled \/ EventCalled)
    => /\ ~IsThrown(transformed.out)
       /\ "success" \in DOMAIN transformed.out
       /\ MustFail(transformed.fn, raw)
            => /\ transformed.out.success = FALSE
               /\ DOMAIN transformed.out = {"success", "message", "sport"}
               /\ transformed.out.sport = "cricket"

\* Witness of C17: transformSportData has caught the exception a null
\* record makes it throw.
C17_Witness ==
  /\ SportCalled
  /\ raw.isList /\ \E i \in 1..Len(raw.result) : raw.result[i].isNull
  /\ transformed.out.success = FALSE

\* The order of the lower-cased competition names under the comparison of
\* strings by code units (the operators < and > of the language).
codeUnitRank(lowered) ==
  CASE lowered = "alpha cup" -> 1
    [] lowered = "league" -> 2
    [] lowered = "zeta cup" -> 3
    [] lowered = "\\u00E9ire cup" -> 4
    [] OTHER -> 5

LowerCasedGreater(a, b) == codeUnitRank(toLowerCase(a)) > codeUnitRank(toLowerCase(b))

\* The names made of unaccented letters, digits and spaces.
Unaccented(name) == name \in {"alpha Cup", "League", "Zeta Cup"}

\* C18 (as claimed): in a successful result of transformSportData the
\* lower-cased name of a competition is not greater than the lower-cased
\* name of the competition after it.
C18_SortedByLowerCasedName ==
  (SportCalled /\ transformed.out.success)
    => \A i \in 1..(Len(transformed.out.competitions) - 1) :
         ~LowerCasedGreater(transformed.out.competitions[i].name,
                            transformed.out.competitions[i + 1].name)

\* C18 (amended): the competitions are in the order of localeCompare on
\* their names: no competition compares greater than the one after it, and
\* for names of unaccented letters, digits and spaces that is the order of
\* the lower-cased names.
C18_SortedByLocaleCompare ==
  (SportCalled /\ transformed.out.success)
    => \A i \in 1..(Len(transformed.out.competitions) - 1) :
         LET a == transformed.out.competitions[i].name
             b == transformed.out.competitions[i + 1].name
         IN  /\ localeCompare(a, b) <= 0
             /\ (Unaccented(a) /\ Unaccented(b)) => ~LowerCasedGreater(a, b)

\* Witness of C18: the sort has moved a competition whose name starts with a
\* lower-case letter in front of the competition the payload named first.
C18_Witness ==
  /\ SportCalled /\ transformed.out.success
  /\ Len(transformed.out.competitions) >= 2
  /\ transformed.out.competitions[1].name = "alpha Cup"
  /\ transformed.out.competitions[2].name = "Zeta Cup"
  /\ raw.result[1].competition.name = "Zeta Cup"

\* A subscribe of lane `lane` of socket c is awaiting its first fetch.
Subscribing(c, lane) ==
  \E task \in BagToSet(pending) :
    task.kind = "subscribe" /\ task.conn = c /\ task.lane = lane

\* The first cycle of a subscribe of the lane has just completed, and the
\* lane's interval variable holds an armed timer for the subscribed key.
JustArmed(c, lane) ==
  /\ handled.op = "cycle" /\ handled.kind = "subscribe"
  /\ handled.conn = c /\ handled.lane = lane
  /\ \E t \in intervals :
        /\ t.id = IntervalOf(c, lane)
        /\ t.conn = c /\ t.lane = lane /\ t.key = handled.key

\* C22: if every upstream request returns, a subscribe that is awaiting its
\* first fetch leads to an armed timer on its lane; and a timer is armed
\* only by the step that completes the first cycle of a subscribe, for that
\* subscribe's socket, lane and key.
C22_SubscribeLeadsToTimer ==
  /\ \A c \in Conns, lane \in Lanes : Subscribing(c, lane) ~> JustArmed(c, lane)
  /\ [][ \A t \in intervals' \ intervals :
            /\ handled'.op = "cycle" /\ handled'.kind = "subscribe"
            /\ t.conn = handled'.conn /\ t.lane = handled'.lane
            /\ t.key = handled'.key ]_vars

\* Witness of C22: the timer has been armed after a first cycle whose fetch
\* failed, on a socket that is connected and still subscribed.
C22_Witness ==
  \E c \in Conns, lane \in Lanes :
    /\ JustArmed(c, lane)
    /\ handled.failed
    /\ socketState[c] = "connected"
    /\ subscriptions[c][lane] = handled.key

(***************************************************************************)
(* The lanes of two sockets (specification SpecPair).                      *)
(***************************************************************************)
\* The step changes the subscription, the interval variable or the armed
\* timers of lane `lane` of socket c.
LaneChanges(c, lane) ==
  \/ subscriptions'[c][lane] # subscriptions[c][lane]
  \/ IntervalOf(c, lane)' # IntervalOf(c, lane)
  \/ TimersOf(c, lane)' # TimersOf(c, lane)

\* The step runs a handler of lane `lane` of socket c: a subscribe up to its
\* await or a timer's cycle starts, or an unsubscribe or the rest of a cycle
\* is handled.
LaneStep(c, lane) ==
  \/ \E task \in BagToSet(pending') :
        /\ task.conn = c /\ task.lane = lane
        /\ CopiesIn(task, pending') > CopiesIn(task, pending)
  \/ /\ handled'.op \in {"unsubscribe", "cycle"}
     /\ handled'.conn = c /\ handled'.lane = lane

\* C21: a step of a handler of one lane of a socket changes the
\* subscription, the interval variable and the timers of no other lane, of
\* that socket or of another; and whatever changes a lane of a socket is a
\* step of that socket.
C21_LanesIndependent ==
  [][ \A c \in Conns, lane \in Lanes :
        /\ LaneStep(c, lane)
             => \A c2 \in Conns, lane2 \in Lanes :
                  (c2 # c \/ lane2 # lane) => ~LaneChanges(c2, lane2)
        /\ LaneChanges(c, lane)
             => \/ LaneStep(c, lane)
                \/ socketState'[c] # socketState[c] ]_vars

\* Witness of C21: a lane that was subscribed has just been unsubscribed
\* while a timer is armed for another lane.
C21_Witness ==
  /\ handled.op = "unsubscribe" /\ ~handled.idle
  /\ \E t \in intervals : t.conn # handled.conn \/ t.lane # handled.lane

(***************************************************************************)
(* What reaches the caches and the clients.                                *)
(***************************************************************************)
\* C24: every payload stored in the sport cache or in the event cache is a
\* successful transform result.
C24_CachedPayloadsAreSuccessful ==
  /\ \A k \in DOMAIN sportsDataCache :
       sportsDataCache[k].data # JsNull => sportsDataCache[k].data.success
  /\ \A k \in DOMAIN eventDataCache :
       eventDataCache[k].data # JsNull => eventDataCache[k].data.success

\* C25: every sport_update and event_update emitted to a client carries a
\* successful transform result.
C25_EmittedPayloadsAreSuccessful ==
  emit.event # "none" => emit.success

(***************************************************************************)
(* The user directory (specifications SpecAdmin and SpecDirectory).        *)
(***************************************************************************)
\* C26: the ids of the users are pairwise distinct, and so are their
\* usernames.
C26_IdsAndUsernamesDistinct ==
  \A i, j \in 1..Len(users) :
    i # j => users[i].id # users[j].id /\ users[i].username # users[j].username

\* C23: no user has more than MAX_DEVICES_PER_USER active sessions.
C23_SessionsWithinDeviceLimit ==
  \A i \in 1..Len(users) : Len(users[i].activeSessions) <= MAX_DEVICES_PER_USER

====
